---- MODULE Spec2Model ----
(***************************************************************************)
(* Model of secret_gitlab_trigger (src/src/secret_gitlab_trigger/          *)
(* __init__.py): a Cloud Function that reacts to Secret Manager audit-log  *)
(* events and, when the secret carries the required labels, triggers a     *)
(* GitLab pipeline.                                                        *)
(*                                                                         *)
(* Representation of Python values:                                        *)
(*   str   a sequence of characters; a character is a TLA+ string, and a   *)
(*         multi-letter TLA+ string such as "secrets" stands for a run of  *)
(*         letters that contains none of the separators "/", ".", nor any  *)
(*         JSON punctuation.  "" is <<>>.                                  *)
(*   None  the one-character sequence <<"<None>">>, a character no str of  *)
(*         the model contains.                                             *)
(*   dict  a function whose DOMAIN is the set of keys; {} is the function  *)
(*         with the empty domain.  The keys of os.environ and of the event *)
(*         payload, which the code names by literals, are TLA+ strings;    *)
(*         label keys and pipeline variable names are strs.                *)
(***************************************************************************)
EXTENDS Integers, Sequences, FiniteSets, TLC

VARIABLES pc, cloud_event, environ, locals, calls, exc

vars == <<pc, cloud_event, environ, locals, calls, exc>>

-----------------------------------------------------------------------------
(* Python built-ins used by the module                                     *)

None == <<"<None>">>

EmptyDict == [k \in {} |-> <<>>]

\* bool(x) for x a str or None
Truthy(x) == x # None /\ x # <<>>

\* d.get(k, default)
DictGet(d, k, default) == IF k \in DOMAIN d THEN d[k] ELSE default

\* s.split(sep) for a one-character separator
RECURSIVE Split(_, _)
Split(s, sep) ==
    IF \A i \in 1..Len(s) : s[i] # sep
    THEN <<s>>
    ELSE LET i == CHOOSE i \in 1..Len(s) :
                      s[i] = sep /\ \A j \in 1..(i - 1) : s[j] # sep
         IN  <<SubSeq(s, 1, i - 1)>> \o Split(SubSeq(s, i + 1, Len(s)), sep)

\* sep.join(parts)
RECURSIVE Join(_, _)
Join(parts, sep) ==
    IF Len(parts) = 0 THEN <<>>
    ELSE IF Len(parts) = 1 THEN parts[1]
    ELSE parts[1] \o <<sep>> \o Join(Tail(parts), sep)

\* x in parts
Contains(parts, x) == \E i \in 1..Len(parts) : parts[i] = x

\* parts.index(x), zero-based, for x in parts
Index(parts, x) ==
    (CHOOSE i \in 1..Len(parts) :
        parts[i] = x /\ \A j \in 1..(i - 1) : parts[j] # x) - 1

\* parts[i], zero-based
At(parts, i) == parts[i + 1]

\* parts[:n]
Prefix(parts, n) == SubSeq(parts, 1, n)

\* parts[-1] of a non-empty list
Last(parts) == parts[Len(parts)]

-----------------------------------------------------------------------------
(* json.loads.  Objects produced by the parser (and the label values they  *)
(* are compared with) are tagged with their Python type, so that values of *)
(* different types can be compared as Python compares them.                *)

PyStr(s)  == [type |-> "str", value |-> s]
PyNone    == [type |-> "NoneType", value |-> <<>>]
PyDict(d) == [type |-> "dict", value |-> d]
PyList(l) == [type |-> "list", value |-> l]

JSONDecodeError == [ok |-> FALSE, value |-> PyNone, next |-> 0]

Parsed(v, n) == [ok |-> TRUE, value |-> v, next |-> n]

\* the position of the quote closing the string opened at s[i], or 0
ClosingQuote(s, i) ==
    IF \E j \in (i + 1)..Len(s) : s[j] = "\""
    THEN CHOOSE j \in (i + 1)..Len(s) :
             s[j] = "\"" /\ \A k \in (i + 1)..(j - 1) : s[k] # "\""
    ELSE 0

RECURSIVE ParseValue(_, _), ParseMembers(_, _, _), ParseElements(_, _, _)

\* the JSON value starting at s[i]
ParseValue(s, i) ==
    IF i > Len(s) THEN JSONDecodeError
    ELSE CASE s[i] = "null" -> Parsed(PyNone, i + 1)
           [] s[i] = "\"" ->
                IF ClosingQuote(s, i) = 0 THEN JSONDecodeError
                ELSE Parsed(PyStr(SubSeq(s, i + 1, ClosingQuote(s, i) - 1)),
                            ClosingQuote(s, i) + 1)
           [] s[i] = "{" ->
                IF i + 1 <= Len(s) /\ s[i + 1] = "}"
                THEN Parsed(PyDict(EmptyDict), i + 2)
                ELSE ParseMembers(s, i + 1, EmptyDict)
           [] s[i] = "[" ->
                IF i + 1 <= Len(s) /\ s[i + 1] = "]"
                THEN Parsed(PyList(<<>>), i + 2)
                ELSE ParseElements(s, i + 1, <<>>)
           [] OTHER -> JSONDecodeError

\* the members of an object from s[i] on; acc holds the members read so far
\* (a repeated key keeps its last value)
ParseMembers(s, i, acc) ==
    IF i > Len(s) \/ s[i] # "\"" THEN JSONDecodeError
    ELSE LET key == ParseValue(s, i) IN
         IF ~key.ok \/ key.next > Len(s) \/ s[key.next] # ":"
         THEN JSONDecodeError
         ELSE LET val == ParseValue(s, key.next + 1)
                  new == (key.value.value :> val.value) @@ acc
              IN  IF ~val.ok \/ val.next > Len(s) THEN JSONDecodeError
                  ELSE CASE s[val.next] = "}" -> Parsed(PyDict(new), val.next + 1)
                         [] s[val.next] = "," -> ParseMembers(s, val.next + 1, new)
                         [] OTHER -> JSONDecodeError

\* the elements of an array from s[i] on
ParseElements(s, i, acc) ==
    LET val == ParseValue(s, i) IN
    IF ~val.ok \/ val.next > Len(s) THEN JSONDecodeError
    ELSE CASE s[val.next] = "]" ->
                Parsed(PyList(Append(acc, val.value)), val.next + 1)
           [] s[val.next] = "," ->
                ParseElements(s, val.next + 1, Append(acc, val.value))
           [] OTHER -> JSONDecodeError

\* json.loads(s): the whole of s must be one value
json_loads(s) ==
    LET r == ParseValue(s, 1) IN
    IF r.ok /\ r.next = Len(s) + 1 THEN r ELSE JSONDecodeError


-----------------------------------------------------------------------------
(* The pure helpers                                                        *)

check_required_labels(secret_labels, required_labels) ==
    \A key \in DOMAIN required_labels :
        DictGet(secret_labels, key, PyNone) = required_labels[key]

\* get_event_type with the DestroySecretVersion entry missing from the mapping
get_event_type_incomplete(method_name) ==
    CASE method_name = <<"AddSecretVersion">>     -> <<"CREATE">>
      [] method_name = <<"EnableSecretVersion">>  -> <<"ENABLE">>
      [] method_name = <<"DisableSecretVersion">> -> <<"DISABLE">>
      [] OTHER                                    -> <<"UNKNOWN">>

get_event_type(method_name) ==
    CASE method_name = <<"AddSecretVersion">>     -> <<"CREATE">>
      [] method_name = <<"EnableSecretVersion">>  -> <<"ENABLE">>
      [] method_name = <<"DisableSecretVersion">> -> <<"DISABLE">>
      [] method_name = <<"DestroySecretVersion">> -> <<"DESTROY">>
      [] OTHER                                    -> <<"UNKNOWN">>

extract_secret_name(resource_name) ==
    LET parts == Split(resource_name, "/") IN
    IF Contains(parts, <<"secrets">>)
       /\ Index(parts, <<"secrets">>) + 1 < Len(parts)
    THEN At(parts, Index(parts, <<"secrets">>) + 1)
    ELSE resource_name

get_secret_resource_path(resource_name) ==
    LET parts == Split(resource_name, "/") IN
    IF Contains(parts, <<"versions">>)
    THEN Join(Prefix(parts, Index(parts, <<"versions">>)), "/")
    ELSE resource_name

\* quote(c) with the default safe="/": the slash is left as it is
QuoteCharSlashSafe(c) ==
    CASE c = ":" -> "%3A"
      [] c = " " -> "%20"
      [] c = "%" -> "%25"
      [] OTHER   -> c

\* quote(c, safe="") of one character: the letters, digits and "_.-~" of a
\* run stay, every other character is percent-encoded
QuoteChar(c) ==
    CASE c = "/" -> "%2F"
      [] c = ":" -> "%3A"
      [] c = " " -> "%20"
      [] c = "%" -> "%25"
      [] OTHER   -> c

\* quote(s, safe="")
quote(s) == [i \in 1..Len(s) |-> QuoteChar(s[i])]

\* f"variables[{key}]"
VariableField(key) == <<"variables", "[">> \o key \o <<"]">>

\* the request trigger_gitlab_pipeline passes to requests.post
TriggerRequest(gitlab_url, project_id, trigger_token, ref, variables) ==
    LET encoded_project == quote(project_id)
        url == gitlab_url
               \o <<"/", "api", "/", "v4", "/", "projects", "/">>
               \o encoded_project
               \o <<"/", "trigger", "/", "pipeline">>
        fields == {<<"token">>, <<"ref">>}
                  \cup {VariableField(key) : key \in DOMAIN variables}
        payload == [f \in fields |->
                      IF \E key \in DOMAIN variables : f = VariableField(key)
                      THEN variables[CHOOSE key \in DOMAIN variables :
                                         f = VariableField(key)]
                      ELSE IF f = <<"token">> THEN trigger_token ELSE ref]
    IN  [op |-> "post", url |-> url, data |-> payload, timeout |-> 30]

\* response.raise_for_status() raises HTTPError
RaisesForStatus(status) == 400 <= status /\ status < 600

-----------------------------------------------------------------------------
(* handle_secret_event, cut at its two outbound calls                      *)

\* lines 99-113: the event's fields and the configuration
ParseEvent(event, env) ==
    LET data == event.data
        proto_payload == DictGet(data, "protoPayload", EmptyDict)
    IN  [method_name |->
             Last(Split(DictGet(proto_payload, "methodName", <<>>), ".")),
         resource_name |-> DictGet(proto_payload, "resourceName", <<>>),
         caller_email |->
             DictGet(DictGet(proto_payload, "authenticationInfo", EmptyDict),
                     "principalEmail", <<"unknown">>),
         gitlab_url |->
             DictGet(env, "GITLAB_URL",
                     <<"https", ":", "/", "/", "gitlab", ".", "com">>),
         gitlab_project_id |-> DictGet(env, "GITLAB_PROJECT_ID", None),
         gitlab_ref |-> DictGet(env, "GITLAB_REF", <<"main">>),
         trigger_token |-> DictGet(env, "GITLAB_TRIGGER_TOKEN", None),
         required_labels_json |-> DictGet(env, "REQUIRED_LABELS", <<"{", "}">>),
         project_id |-> DictGet(env, "GCP_PROJECT_ID", None)]

\* line 115 with "and" for "or"
MissingEnvironmentBoth(gitlab_project_id, trigger_token) ==
    ~Truthy(gitlab_project_id) /\ ~Truthy(trigger_token)

\* line 115
MissingEnvironment(gitlab_project_id, trigger_token) ==
    ~Truthy(gitlab_project_id) \/ ~Truthy(trigger_token)

\* lines 120-124 with the except branch leaving no policy
ParseRequiredLabelsNoFallback(required_labels_json) ==
    IF json_loads(required_labels_json).ok
    THEN json_loads(required_labels_json).value
    ELSE PyNone

\* lines 120-124
ParseRequiredLabels(required_labels_json) ==
    IF json_loads(required_labels_json).ok
    THEN json_loads(required_labels_json).value
    ELSE PyDict(EmptyDict)

\* line 24
SecretLabels(secret) ==
    IF secret.labels.type = "dict" /\ DOMAIN secret.labels.value # {}
    THEN secret.labels.value
    ELSE EmptyDict

\* lines 137-146 with SECRET_RESOURCE taken from the version-stripped path
VariablesStripped(l) ==
    (<<"SECRET_EVENT_TYPE">> :> get_event_type(l.method_name))
    @@ (<<"SECRET_NAME">> :> extract_secret_name(l.resource_name))
    @@ (<<"SECRET_RESOURCE">> :> l.secret_resource_path)
    @@ (<<"GCP_PROJECT_ID">> :>
            IF Truthy(l.project_id) THEN l.project_id ELSE <<>>)
    @@ (<<"TRIGGERED_BY">> :> l.caller_email)

\* lines 137-146
Variables(l) ==
    (<<"SECRET_EVENT_TYPE">> :> get_event_type(l.method_name))
    @@ (<<"SECRET_NAME">> :> extract_secret_name(l.resource_name))
    @@ (<<"SECRET_RESOURCE">> :> l.resource_name)
    @@ (<<"GCP_PROJECT_ID">> :>
            IF Truthy(l.project_id) THEN l.project_id ELSE <<>>)
    @@ (<<"TRIGGERED_BY">> :> l.caller_email)

-----------------------------------------------------------------------------
(* The inputs: events, configurations, and the answers of the two services  *)

\* a dict with the one entry k: v, or without it when v is None
Entry(k, v) == IF v = None THEN EmptyDict ELSE (k :> v)

MethodNames ==
    { <<"AddSecretVersion">>,
      <<"google", ".", "SecretManagerService", ".", "AddSecretVersion">>,
      <<"google", ".", "SecretManagerService", ".", "EnableSecretVersion">>,
      <<"google", ".", "SecretManagerService", ".", "DisableSecretVersion">>,
      <<"google", ".", "SecretManagerService", ".", "DestroySecretVersion">>,
      <<"google", ".", "SecretManagerService", ".", "DeleteSecret">>,
      <<"AddSecretVersion", ".">>,
      <<"Add", "SecretVersion">>,
      <<>> }

\* the segments a placeholder of projects/<proj>/secrets/<name>/versions/<ver>
\* ranges over: non-empty, without "/"
Placeholders == { <<"my-name">>, <<"secrets">>, <<"versions">> }

\* the versions of a secret are numbered from 1
MaxVersion == 2

Versions == { <<ToString(v)>> : v \in 1..MaxVersion }

SecretPath(proj, name) ==
    Join(<<<<"projects">>, proj, <<"secrets">>, name>>, "/")

VersionPath(proj, name, ver) ==
    Join(<<<<"projects">>, proj, <<"secrets">>, name, <<"versions">>, ver>>, "/")

SecretPaths == { SecretPath(proj, name) : proj \in Placeholders, name \in Placeholders }

VersionPaths ==
    { VersionPath(proj, name, ver) :
        proj \in Placeholders, name \in Placeholders, ver \in Versions }

OtherPaths ==
    { <<>>,
      <<"projects", "/", "my-name", "/", "other", "/", "something">>,
      <<"projects", "/", "my-name", "/", "secrets">> }

ResourceNames == SecretPaths \cup VersionPaths \cup OtherPaths

AuthenticationInfos ==
    { EmptyDict,
      ("authenticationInfo" :> EmptyDict),
      ("authenticationInfo" :>
          ("principalEmail" :> <<"user", "@", "example", ".", "com">>)) }

ProtoPayload(m, r, a) == Entry("methodName", m) @@ Entry("resourceName", r) @@ a

Event(p) == [data |-> ("protoPayload" :> p)]

Events ==
    { [data |-> EmptyDict] }
    \cup { Event(ProtoPayload(m, r, a)) :
             m \in MethodNames \cup {None},
             r \in ResourceNames \cup {None},
             a \in AuthenticationInfos }

\* the events of the test suite's create_cloud_event, with and without
\* the optional fields
CoreEvents ==
    { [data |-> EmptyDict] }
    \cup { Event(ProtoPayload(
                   <<"google", ".", "SecretManagerService", ".", "AddSecretVersion">>,
                   r, a)) :
             r \in { None, VersionPath(<<"my-name">>, <<"my-name">>, <<"1">>) },
             a \in AuthenticationInfos }

RequiredLabelsJson ==
    { <<"{", "}">>,
      <<"{", "\"", "application", "\"", ":", "\"", "n8n", "\"", "}">>,
      <<"{", "\"", "application", "\"", ":", "\"", "n8n", "\"", ",",
             "\"", "environment", "\"", ":", "\"", "prod", "\"", "}">>,
      <<"{", "\"", "application", "\"", ":", "null", "}">>,
      <<"[", "\"", "application", "\"", "]">>,
      <<"null">>,
      <<"invalid-json">>,
      <<"{", "\"", "application", "\"", ":", "\"", "n8n", "\"">>,
      <<>> }

\* os.environ with the six variables the handler reads, each set or unset
Environ(u, p, r, t, l, g) ==
    Entry("GITLAB_URL", u) @@ Entry("GITLAB_PROJECT_ID", p)
    @@ Entry("GITLAB_REF", r) @@ Entry("GITLAB_TRIGGER_TOKEN", t)
    @@ Entry("REQUIRED_LABELS", l) @@ Entry("GCP_PROJECT_ID", g)

Environs ==
    { Environ(u, p, r, t, l, g) :
        u \in { None, <<"https", ":", "/", "/", "git", ".", "example">> },
        p \in { None, <<>>, <<"group", "/", "project">> },
        r \in { None, <<"release">> },
        t \in { None, <<>>, <<"gitlab-token">> },
        l \in RequiredLabelsJson \cup {None},
        g \in { None, <<>>, <<"my-project">> } }

\* the configurations of the test suite
CoreEnvirons ==
    { Environ(None, p, None, t, l, <<"my-project">>) :
        p \in { None, <<"group", "/", "project">> },
        t \in { None, <<"gitlab-token">> },
        l \in { <<"{", "}">>,
                <<"{", "\"", "application", "\"", ":", "\"", "n8n", "\"", "}">>,
                <<"{", "\"", "application", "\"", ":", "null", "}">>,
                <<"invalid-json">> } }

\* the invocations: every event under the core configurations, and every
\* configuration with the core events
Invocations == (Events \X CoreEnvirons) \cup (CoreEvents \X Environs)

\* the label mappings of the secrets in the store
LabelMaps ==
    { EmptyDict,
      (<<"application">> :> PyStr(<<"n8n">>)),
      (<<"application">> :> PyStr(<<"other-app">>)),
      (<<"environment">> :> PyStr(<<"prod">>)),
      (<<"application">> :> PyStr(<<"n8n">>))
          @@ (<<"environment">> :> PyStr(<<"prod">>)) }

\* what client.get_secret returns
Secrets == { [labels |-> PyDict(m)] : m \in LabelMaps } \cup { [labels |-> PyNone] }

HttpStatuses == { 200, 201, 300, 404, 500 }

ResponseBodies ==
    { <<"{", "\"", "web_url", "\"", ":", "\"", "https", ":", "/", "/",
             "gitlab", ".", "com", "/", "pipelines", "/", "1", "\"", "}">>,
      <<"{", "}">>,
      <<"[", "]">>,
      <<"<html>">>,
      <<>> }

\* what requests.post returns
Responses == [status : HttpStatuses, text : ResponseBodies]

-----------------------------------------------------------------------------
(* The state machine of one invocation (invocations share no state).  pc   *)
(* is its position: "idle" before the handler is entered (the event and    *)
(* the environment are there), "get_secret" and                            *)
(* "post" while an outbound call is in flight, "returned" and "raised"     *)
(* when it has ended.  calls logs the outbound calls of the invocation and *)
(* their outcomes, exc is the exception that ended it.                     *)

Init ==
    /\ pc = "idle"
    /\ \E i \in Invocations : cloud_event = i[1] /\ environ = i[2]
    /\ locals = EmptyDict
    /\ calls = <<>>
    /\ exc = "none"

\* the platform invokes handle_secret_event(cloud_event): lines 99-128 and 21-23
Deliver ==
    /\ pc = "idle"
    /\ exc' = "none"
    /\ LET l == ParseEvent(cloud_event, environ) IN
       IF MissingEnvironment(l.gitlab_project_id, l.trigger_token)
       THEN /\ pc' = "returned"
            /\ locals' = l
            /\ calls' = <<>>
       ELSE LET required_labels == ParseRequiredLabels(l.required_labels_json)
                secret_resource_path == get_secret_resource_path(l.resource_name)
            IN  /\ pc' = "get_secret"
                /\ locals' = l @@ [required_labels |-> required_labels,
                                   secret_resource_path |-> secret_resource_path]
                /\ calls' = <<[op |-> "get_secret", name |-> secret_resource_path]>>
    /\ UNCHANGED <<cloud_event, environ>>

\* lines 130-157 and 80-91, entered with the labels get_secret_labels gave:
\* the gate, the variables, and the POST
Gate(secret_labels, log) ==
    LET l == locals @@ [secret_labels |-> secret_labels] IN
    IF l.required_labels.type # "dict"
    THEN /\ pc' = "raised"
         /\ exc' = "AttributeError"
         /\ locals' = l
         /\ calls' = log
    ELSE IF ~check_required_labels(secret_labels, l.required_labels.value)
    THEN /\ pc' = "returned"
         /\ exc' = "none"
         /\ locals' = l
         /\ calls' = log
    ELSE /\ pc' = "post"
         /\ exc' = "none"
         /\ locals' = l @@ [variables |-> Variables(l)]
         /\ calls' = Append(log,
                        TriggerRequest(l.gitlab_url, l.gitlab_project_id,
                                       l.trigger_token, l.gitlab_ref,
                                       Variables(l)))

\* StoreFails with the exception swallowed: get_secret_labels logs the error
\* and returns {} instead of re-raising
StoreFailsSwallowed(at) ==
    /\ pc = "get_secret"
    /\ Gate(EmptyDict, Append(calls, [op |-> "get_secret.raise", at |-> at]))
    /\ UNCHANGED <<cloud_event, environ>>

\* get_secret_labels fails: the client cannot be built (line 21) or
\* client.get_secret raises (lines 23, 25-28)
StoreFails(at) ==
    /\ pc = "get_secret"
    /\ pc' = "raised"
    /\ exc' = "Exception"
    /\ calls' = Append(calls, [op |-> "get_secret.raise", at |-> at])
    /\ UNCHANGED <<cloud_event, environ, locals>>

\* client.get_secret returns: line 24, then the gate
StoreReturns(secret) ==
    /\ pc = "get_secret"
    /\ Gate(SecretLabels(secret),
            Append(calls, [op |-> "get_secret.return", secret |-> secret]))
    /\ UNCHANGED <<cloud_event, environ>>

\* requests.post raises (connection error, timeout): lines 91, 160-163
PostFails(error) ==
    /\ pc = "post"
    /\ pc' = "raised"
    /\ exc' = error
    /\ calls' = Append(calls, [op |-> "post.raise", error |-> error])
    /\ UNCHANGED <<cloud_event, environ, locals>>

\* the outcome of lines 92-93 and 159-163 on a response
ResponseOutcome(response) ==
    IF RaisesForStatus(response.status) THEN "HTTPError"
    ELSE IF ~json_loads(response.text).ok THEN "JSONDecodeError"
    ELSE IF json_loads(response.text).value.type # "dict" THEN "AttributeError"
    ELSE "none"

\* requests.post returns a response: lines 92-93 and 159-163
PostReturns(response) ==
    /\ pc = "post"
    /\ exc' = ResponseOutcome(response)
    /\ pc' = IF ResponseOutcome(response) = "none" THEN "returned" ELSE "raised"
    /\ calls' = Append(calls, [op |-> "post.return", response |-> response])
    /\ UNCHANGED <<cloud_event, environ, locals>>

Next ==
    \/ Deliver
    \/ \E at \in {"client", "get_secret"} : StoreFails(at)
    \/ \E secret \in Secrets : StoreReturns(secret)
    \/ \E error \in {"ConnectionError", "Timeout"} : PostFails(error)
    \/ \E response \in Responses : PostReturns(response)

Spec == Init /\ [][Next]_vars

-----------------------------------------------------------------------------
(* trigger_gitlab_pipeline called on its own, as the unit tests call it.   *)
(* locals holds its arguments; pc is "trigger" before the call,            *)
(* "trigger.post" while requests.post is in flight, "trigger.returned" and *)
(* "trigger.raised" when the call has ended.                               *)

\* the longest project id, in characters
MaxProjectLen == 3

\* the characters of a project id: runs of letters and digits, the path
\* separator of a namespaced project, and characters quote() escapes
ProjectChars == { "group", "42", "/", "%" }

ProjectIds ==
    UNION { [1..n -> ProjectChars] : n \in 1..MaxProjectLen }
    \cup { <<"group", "/", "subgroup", "/", "project">> }

VariableKeys == { <<"VAR1">>, <<"SECRET_NAME">>, <<"token">> }

VariableValues == { <<"value1">>, <<>> }

\* the variable mappings: every subset of the keys, with every choice of values
VariableMaps ==
    UNION { [keys -> VariableValues] : keys \in SUBSET VariableKeys }

TriggerArguments ==
    [gitlab_url : { <<"https", ":", "/", "/", "gitlab", ".", "com">>,
                    <<"http", ":", "/", "/", "localhost", ":", "8080">> },
     project_id : ProjectIds,
     trigger_token : { <<"test-token">> },
     ref : { <<"main">> },
     variables : VariableMaps]

InitTrigger ==
    /\ pc = "trigger"
    /\ cloud_event = [data |-> EmptyDict]
    /\ environ = EmptyDict
    /\ locals \in TriggerArguments
    /\ calls = <<>>
    /\ exc = "none"

\* lines 80-91: the url, the payload, and the POST
TriggerPosts ==
    /\ pc = "trigger"
    /\ pc' = "trigger.post"
    /\ calls' = Append(calls,
                   TriggerRequest(locals.gitlab_url, locals.project_id,
                                  locals.trigger_token, locals.ref,
                                  locals.variables))
    /\ UNCHANGED <<cloud_event, environ, locals, exc>>

\* line 91: requests.post raises
TriggerPostFails(error) ==
    /\ pc = "trigger.post"
    /\ pc' = "trigger.raised"
    /\ exc' = error
    /\ calls' = Append(calls, [op |-> "post.raise", error |-> error])
    /\ UNCHANGED <<cloud_event, environ, locals>>

\* lines 92-93: raise_for_status, then the parsed body is returned
TriggerPostReturns(response) ==
    /\ pc = "trigger.post"
    /\ calls' = Append(calls, [op |-> "post.return", response |-> response])
    /\ IF RaisesForStatus(response.status)
       THEN pc' = "trigger.raised" /\ exc' = "HTTPError" /\ locals' = locals
       ELSE IF ~json_loads(response.text).ok
       THEN pc' = "trigger.raised" /\ exc' = "JSONDecodeError" /\ locals' = locals
       ELSE /\ pc' = "trigger.returned"
            /\ exc' = "none"
            /\ locals' = locals @@ [result |-> json_loads(response.text).value]
    /\ UNCHANGED <<cloud_event, environ>>

NextTrigger ==
    \/ TriggerPosts
    \/ \E error \in {"ConnectionError", "Timeout"} : TriggerPostFails(error)
    \/ \E response \in Responses : TriggerPostReturns(response)

SpecTrigger == InitTrigger /\ [][NextTrigger]_vars

-----------------------------------------------------------------------------
(* The handler under the platform's retry contract (the comments of lines  *)
(* 27 and 162): an invocation that raised is delivered again, one that     *)
(* returned is not.  calls keeps the log of the earlier deliveries of the  *)
(* event.  The two services fail only transiently: at most MaxFailures     *)
(* outbound calls end in an exception, and the secret does not change      *)
(* between deliveries.                                                     *)

\* the number of outbound calls that may fail before the services recover
MaxFailures == 2

\* the positions of the log entries of one kind
Ops(o) == { i \in 1..Len(calls) : calls[i].op = o }

\* the outbound calls so far that made an invocation raise
Failures ==
    Cardinality(Ops("get_secret.raise") \cup Ops("post.raise")
                \cup { i \in Ops("post.return") :
                         ResponseOutcome(calls[i].response) # "none" })

\* the responses of the trigger endpoint under redelivery
RetryResponses ==
    [status : { 200, 300, 500 },
     text : { <<"{", "\"", "web_url", "\"", ":", "\"", "https", ":", "/", "/",
                     "gitlab", ".", "com", "/", "pipelines", "/", "1", "\"", "}">>,
              <<"<html>">> }]

InitRetry ==
    /\ pc = "idle"
    /\ cloud_event \in CoreEvents
    /\ environ \in CoreEnvirons
    /\ locals = EmptyDict
    /\ calls = <<>>
    /\ exc = "none"

\* the platform delivers the event again after a failed invocation:
\* handle_secret_event is entered anew, lines 99-128 and 21-23
Redeliver ==
    /\ pc = "raised"
    /\ exc' = "none"
    /\ LET l == ParseEvent(cloud_event, environ)
           log == Append(calls, [op |-> "redeliver"])
       IN
       IF MissingEnvironment(l.gitlab_project_id, l.trigger_token)
       THEN /\ pc' = "returned"
            /\ locals' = l
            /\ calls' = log
       ELSE LET required_labels == ParseRequiredLabels(l.required_labels_json)
                secret_resource_path == get_secret_resource_path(l.resource_name)
            IN  /\ pc' = "get_secret"
                /\ locals' = l @@ [required_labels |-> required_labels,
                                   secret_resource_path |-> secret_resource_path]
                /\ calls' = Append(log, [op |-> "get_secret",
                                         name |-> secret_resource_path])
    /\ UNCHANGED <<cloud_event, environ>>

\* a store lookup fails while the store has not recovered
TransientStoreFailure ==
    /\ Failures < MaxFailures
    /\ StoreFails("get_secret")

\* the store answers with the secret, the same at every delivery
StoreAnswers(secret) ==
    /\ \A j \in Ops("get_secret.return") : calls[j].secret = secret
    /\ StoreReturns(secret)

\* requests.post raises while the endpoint has not recovered
TransientPostFailure ==
    /\ Failures < MaxFailures
    /\ PostFails("ConnectionError")

\* the endpoint answers; an answer that makes the invocation raise is a
\* failure, possible while the endpoint has not recovered
EndpointAnswers(response) ==
    /\ ResponseOutcome(response) # "none" => Failures < MaxFailures
    /\ PostReturns(response)

NextRetry ==
    \/ Deliver
    \/ Redeliver
    \/ TransientStoreFailure
    \/ \E secret \in Secrets : StoreAnswers(secret)
    \/ TransientPostFailure
    \/ \E response \in RetryResponses : EndpointAnswers(response)

\* the platform delivers, the services answer, the handler runs on
SpecRetry == InitRetry /\ [][NextRetry]_vars /\ WF_vars(NextRetry)

-----------------------------------------------------------------------------
(* Vocabulary of the properties                                            *)

\* a pipeline trigger request has been sent in this invocation
Sent == Ops("post") # {}

\* the label mapping a returned store lookup carried
FetchedLabels(i) ==
    IF calls[i].secret.labels.type = "dict"
    THEN calls[i].secret.labels.value
    ELSE EmptyDict

\* every key of the policy is in the labels, with an equal value
PolicySatisfied(labels, policy) ==
    \A k \in DOMAIN policy : k \in DOMAIN labels /\ labels[k] = policy[k]

\* the configuration has both required variables
Configured ==
    /\ "GITLAB_PROJECT_ID" \in DOMAIN environ /\ environ["GITLAB_PROJECT_ID"] # <<>>
    /\ "GITLAB_TRIGGER_TOKEN" \in DOMAIN environ /\ environ["GITLAB_TRIGGER_TOKEN"] # <<>>

\* the event's protoPayload, {} when it has none
ReceivedPayload == DictGet(cloud_event.data, "protoPayload", EmptyDict)

\* protoPayload.resourceName as received, "" when absent
ReceivedResourceName == DictGet(ReceivedPayload, "resourceName", <<>>)

\* protoPayload.methodName as received, "" when absent
ReceivedMethodName == DictGet(ReceivedPayload, "methodName", <<>>)

\* the path has a segment equal to seg
HasSegment(path, seg) == \E i \in 1..Len(Split(path, "/")) : Split(path, "/")[i] = seg

\* what follows the last "." of s, s itself when it has none
LastDotSegment(s) ==
    LET dots == { i \in 1..Len(s) : s[i] = "." } IN
    IF dots = {} THEN s
    ELSE SubSeq(s, (CHOOSE i \in dots : \A j \in dots : j <= i) + 1, Len(s))

\* the event type the classifier's table gives a method
EventTypeOf(method) ==
    CASE method = <<"AddSecretVersion">>     -> <<"CREATE">>
      [] method = <<"EnableSecretVersion">>  -> <<"ENABLE">>
      [] method = <<"DisableSecretVersion">> -> <<"DISABLE">>
      [] method = <<"DestroySecretVersion">> -> <<"DESTROY">>
      [] OTHER                               -> <<"UNKNOWN">>

VariableNames ==
    { <<"SECRET_EVENT_TYPE">>, <<"SECRET_NAME">>, <<"SECRET_RESOURCE">>,
      <<"GCP_PROJECT_ID">>, <<"TRIGGERED_BY">> }

-----------------------------------------------------------------------------
(* The properties                                                          *)

\* C1: the trigger request is sent only after the label fetch has returned
\* and only if every key of the parsed REQUIRED_LABELS policy is in the
\* fetched labels with an equal value; when the fetched labels do not
\* satisfy the policy the handler returns normally and sends nothing.
C1_TriggerOnlyWhenPolicySatisfied ==
    /\ \A i \in Ops("post") :
          \E j \in Ops("get_secret.return") :
              /\ j < i
              /\ locals.required_labels.type = "dict"
              /\ PolicySatisfied(FetchedLabels(j), locals.required_labels.value)
    /\ \A j \in Ops("get_secret.return") :
          (/\ locals.required_labels.type = "dict"
           /\ ~PolicySatisfied(FetchedLabels(j), locals.required_labels.value))
          => pc = "returned" /\ exc = "none" /\ ~Sent

\* C2: check_required_labels(secretLabels, requiredLabels) is true iff every
\* key of requiredLabels is in secretLabels with that exact value, required
\* values being strings or null.
C2_CheckRequiredLabelsIffPolicySatisfied ==
    ("secret_labels" \in DOMAIN locals /\ locals.required_labels.type = "dict")
    => (check_required_labels(locals.secret_labels, locals.required_labels.value)
        <=> PolicySatisfied(locals.secret_labels, locals.required_labels.value))

\* C3: a failed store lookup ends the invocation as failed: it does not
\* return normally and no trigger request is sent.
C3_StoreFailurePropagates ==
    Ops("get_secret.raise") # {}
    => pc = "raised" /\ exc # "none" /\ ~Sent

\* C3 happens: the store lookup failed in a configured invocation
C3_Witness ==
    /\ Configured
    /\ Ops("get_secret.raise") # {}
    /\ pc = "raised"

\* C4: every network failure and every response whose status is not 2xx is
\* propagated out of the invocation; the call returns the parsed body only
\* when the status is 2xx.
C4_NonSuccessResponsePropagates ==
    /\ \A i \in Ops("post.raise") : pc = "raised" /\ exc = calls[i].error
    /\ \A i \in Ops("post.return") :
          calls[i].response.status \notin 200..299 => pc = "raised" /\ exc # "none"
    /\ \A i \in Ops("post.return") :
          pc = "returned" => calls[i].response.status \in 200..299

\* C5: with GITLAB_PROJECT_ID or GITLAB_TRIGGER_TOKEN absent the invocation
\* returns normally and makes neither outbound call.
C5_MissingConfigurationReturnsSilently ==
    (/\ pc # "idle"
     /\ \/ "GITLAB_PROJECT_ID" \notin DOMAIN environ
        \/ "GITLAB_TRIGGER_TOKEN" \notin DOMAIN environ)
    => pc = "returned" /\ exc = "none" /\ calls = <<>>

\* C5 happens: an event with a payload was handled with the token absent
C5_Witness ==
    /\ pc = "returned"
    /\ "protoPayload" \in DOMAIN cloud_event.data
    /\ "GITLAB_PROJECT_ID" \in DOMAIN environ
    /\ "GITLAB_TRIGGER_TOKEN" \notin DOMAIN environ

\* the REQUIRED_LABELS strings of the model that are not JSON
UnparseableRequiredLabels ==
    { <<"invalid-json">>,
      <<"{", "\"", "application", "\"", ":", "\"", "n8n", "\"">>,
      <<>> }

\* C6: with REQUIRED_LABELS not parseable as JSON the handler goes on with
\* the empty policy: once the store lookup has returned, whatever the labels,
\* the trigger request has been sent exactly once.
C6_UnparseablePolicyTriggersAlways ==
    (/\ Configured
     /\ "REQUIRED_LABELS" \in DOMAIN environ
     /\ environ["REQUIRED_LABELS"] \in UnparseableRequiredLabels)
    => /\ pc # "idle" => Ops("get_secret") # {}
       /\ Ops("get_secret.return") # {} => Cardinality(Ops("post")) = 1

\* C6 happens: REQUIRED_LABELS is invalid-json, the secret has no labels, and
\* the trigger request was sent
C6_Witness ==
    /\ "REQUIRED_LABELS" \in DOMAIN environ
    /\ environ["REQUIRED_LABELS"] = <<"invalid-json">>
    /\ \E j \in Ops("get_secret.return") : FetchedLabels(j) = EmptyDict
    /\ Cardinality(Ops("post")) = 1

\* C7: for every path projects/<proj>/secrets/<name>[/versions/<ver>]
\* extract_secret_name returns <name>, and that is the SECRET_NAME the handler
\* sends; a path without a "secrets" segment is returned unchanged.
C7_SecretNameOfDocumentedShape ==
    Sent =>
    /\ \A proj \in Placeholders, name \in Placeholders :
          ReceivedResourceName \in
              {SecretPath(proj, name)}
              \cup { VersionPath(proj, name, ver) : ver \in Versions }
          => locals.variables[<<"SECRET_NAME">>] = name
    /\ ~HasSegment(ReceivedResourceName, <<"secrets">>)
          => locals.variables[<<"SECRET_NAME">>] = ReceivedResourceName

\* C8: for every path projects/<proj>/secrets/<name>/versions/<ver>
\* get_secret_resource_path returns projects/<proj>/secrets/<name>, and that
\* is the name the handler queries the store with; a path without a
\* "versions" segment is returned unchanged.
C8_StoreQueriedWithVersionStripped ==
    \A i \in Ops("get_secret") :
        /\ \A proj \in Placeholders, name \in Placeholders, ver \in Versions :
              ReceivedResourceName = VersionPath(proj, name, ver)
              => /\ locals.secret_resource_path = SecretPath(proj, name)
                 /\ calls[i].name = SecretPath(proj, name)
        /\ ~HasSegment(ReceivedResourceName, <<"versions">>)
              => /\ locals.secret_resource_path = ReceivedResourceName
                 /\ calls[i].name = ReceivedResourceName

\* C9: the SECRET_EVENT_TYPE of a sent trigger request is the table's value
\* for the last dot-separated segment of protoPayload.methodName, UNKNOWN for
\* every other string and for a missing methodName; an UNKNOWN event type
\* does not keep the request from being sent once the gate has passed.
C9_EventTypeByLastSegment ==
    /\ \A i \in Ops("post") :
          /\ locals.variables[<<"SECRET_EVENT_TYPE">>]
                = EventTypeOf(LastDotSegment(ReceivedMethodName))
          /\ calls[i].data[VariableField(<<"SECRET_EVENT_TYPE">>)]
                = EventTypeOf(LastDotSegment(ReceivedMethodName))
    /\ (/\ Ops("get_secret.return") # {}
        /\ locals.required_labels.type = "dict"
        /\ check_required_labels(locals.secret_labels, locals.required_labels.value))
       => Sent

\* C9 happens: a request was sent for an event without methodName, as UNKNOWN
C9_Witness ==
    /\ Sent
    /\ "protoPayload" \in DOMAIN cloud_event.data
    /\ "methodName" \notin DOMAIN ReceivedPayload
    /\ locals.variables[<<"SECRET_EVENT_TYPE">>] = <<"UNKNOWN">>

\* C10: a sent trigger request has exactly the five variables; SECRET_RESOURCE
\* is the resource name as received, GCP_PROJECT_ID the configured value or
\* "", TRIGGERED_BY the principalEmail or "unknown".
C10_VariablesOfTheRequest ==
    \A i \in Ops("post") :
        /\ DOMAIN locals.variables = VariableNames
        /\ DOMAIN calls[i].data
              = {<<"token">>, <<"ref">>}
                \cup { VariableField(k) : k \in VariableNames }
        /\ \A k \in VariableNames :
              calls[i].data[VariableField(k)] = locals.variables[k]
        /\ locals.variables[<<"SECRET_RESOURCE">>] = ReceivedResourceName
        /\ locals.variables[<<"GCP_PROJECT_ID">>]
              = DictGet(environ, "GCP_PROJECT_ID", <<>>)
        /\ locals.variables[<<"TRIGGERED_BY">>]
              = DictGet(DictGet(ReceivedPayload, "authenticationInfo", EmptyDict),
                        "principalEmail", <<"unknown">>)

\* C10 happens: a request was sent for a versioned resource with
\* GCP_PROJECT_ID and the principalEmail absent
C10_Witness ==
    /\ Sent
    /\ HasSegment(ReceivedResourceName, <<"versions">>)
    /\ "GCP_PROJECT_ID" \notin DOMAIN environ
    /\ "authenticationInfo" \in DOMAIN ReceivedPayload
    /\ "principalEmail" \notin DOMAIN ReceivedPayload["authenticationInfo"]
    /\ locals.variables[<<"TRIGGERED_BY">>] = <<"unknown">>

\* the fixed parts of the trigger endpoint's path
EndpointHead == <<"/", "api", "/", "v4", "/", "projects", "/">>

EndpointTail == <<"/", "trigger", "/", "pipeline">>

\* the project segment of a url built on base: what lies between the fixed parts
ProjectSegment(url, base) ==
    SubSeq(url, Len(base) + Len(EndpointHead) + 1, Len(url) - Len(EndpointTail))

\* C11: trigger_gitlab_pipeline issues one POST to
\* {base}/api/v4/projects/{encoded P}/trigger/pipeline; the encoded project
\* segment has no raw "/" (each "/" of P is %2F there), and the form body has
\* the fields token and ref, one field variables[k] with value v for each
\* entry (k, v) of V, and no other field.
C11_TriggerRequestShape ==
    pc # "trigger" =>
    /\ Cardinality(Ops("post")) = 1
    /\ \A i \in Ops("post") :
          LET url == calls[i].url
              data == calls[i].data
              P == locals.project_id
              V == locals.variables
              seg == ProjectSegment(url, locals.gitlab_url)
          IN  /\ url = locals.gitlab_url \o EndpointHead \o seg \o EndpointTail
              /\ Len(seg) = Len(P)
              /\ \A j \in 1..Len(seg) :
                    /\ seg[j] # "/"
                    /\ P[j] = "/" <=> seg[j] = "%2F"
                    /\ P[j] \in {"group", "42", "subgroup", "project"} => seg[j] = P[j]
              /\ DOMAIN data
                    = {<<"token">>, <<"ref">>} \cup { VariableField(k) : k \in DOMAIN V }
              /\ Cardinality(DOMAIN data) = 2 + Cardinality(DOMAIN V)
              /\ data[<<"token">>] = locals.trigger_token
              /\ data[<<"ref">>] = locals.ref
              /\ \A k \in DOMAIN V : data[VariableField(k)] = V[k]

\* C11 happens: the POST was issued for group/subgroup/project with three
\* variables, one of them named token
C11_Witness ==
    /\ pc = "trigger.post"
    /\ locals.project_id = <<"group", "/", "subgroup", "/", "project">>
    /\ DOMAIN locals.variables = VariableKeys
    /\ Cardinality(Ops("post")) = 1

\* the event is in scope: the configuration is complete, and the store has
\* answered with a secret whose labels satisfy the policy
InScope ==
    /\ Configured
    /\ \E j \in Ops("get_secret.return") :
          /\ locals.required_labels.type = "dict"
          /\ PolicySatisfied(FetchedLabels(j), locals.required_labels.value)

\* a trigger POST of some delivery of the event has succeeded
PostSucceeded ==
    \E i \in Ops("post.return") : calls[i].response.status \in 200..299

\* C12: under redelivery after every failed invocation and transient
\* failures, an event whose secret satisfies the policy is never silently
\* dropped: no invocation for it returns normally before a trigger POST has
\* succeeded, and some delivery completes a successful trigger POST.  Every
\* behaviour of SpecRetry ends, and ends with an invocation that returned,
\* so both halves say that this last invocation finds a succeeded POST in
\* the log.
C12_NeverSilentlyDropped ==
    (InScope /\ pc = "returned") => PostSucceeded

\* a call the invocation made across its boundary has failed: the store
\* lookup raised, requests.post raised, or the endpoint's answer was an error
\* status or a body that is no JSON object
BoundaryFailed ==
    \/ Ops("get_secret.raise") # {}
    \/ Ops("post.raise") # {}
    \/ \E i \in Ops("post.return") : ResponseOutcome(calls[i].response) # "none"

\* C13: an invocation of handle_secret_event raises only if a boundary call
\* it made failed: for every event payload and every REQUIRED_LABELS (absent,
\* unparseable or any valid JSON value), if the store lookup and the trigger
\* POST succeed whenever they are called, the invocation returns normally.
C13_RaisesOnlyOnBoundaryFailure ==
    pc = "raised" => BoundaryFailed

====
